---- MODULE Spec2Model ----
(***************************************************************************)
(* Model of the buffered terminal session and of the control-character     *)
(* sender of iterm-mcp (src/src/BufferedCommandExecutor.ts).                *)
(*                                                                         *)
(* Text is a sequence of one-character strings.  The terminal buffer is an *)
(* external resource: it is changed by the terminal (TerminalAppend,       *)
(* TerminalClear) between any two suspension points of the session's       *)
(* async methods.  Every `await` of the source is a step of its own.       *)
(***************************************************************************)
EXTENDS Integers, Sequences, FiniteSets, TLC

\* ---------------------------------------------------------------- bounds
MaxBuf == 2
MaxInFlight == 1
MaxDiffLen == 4

NL == "\n"
Chars == {"a", NL}
Commands == {"c1"}
Slots == {1, 2}
\* the values Date.now() takes; 0, before all of them, is the initial stamp
Instants == {1}
\* the alphabet and the texts the diff engine is exercised on
DiffChars == {"a", "b", NL}
NULL == [command |-> "null", timestamp |-> 0, beforeBuffer |-> <<>>]

\* ------------------------------------------------------ text primitives
RECURSIVE TextsOfLen(_)
TextsOfLen(n) ==
  IF n = 0 THEN {<<>>}
  ELSE {Append(t, c) : t \in TextsOfLen(n - 1), c \in Chars}

RECURSIVE TextsUpTo(_)
TextsUpTo(n) ==
  IF n = 0 THEN {<<>>} ELSE TextsOfLen(n) \cup TextsUpTo(n - 1)

RECURSIVE DiffTextsOfLen(_)
DiffTextsOfLen(n) ==
  IF n = 0 THEN {<<>>}
  ELSE {Append(t, c) : t \in DiffTextsOfLen(n - 1), c \in DiffChars}

DiffTexts == UNION {DiffTextsOfLen(n) : n \in 0..MaxDiffLen}

\* String.prototype.startsWith
StartsWith(s, p) ==
  /\ Len(p) <= Len(s)
  /\ SubSeq(s, 1, Len(p)) = p

\* String.prototype.substring(k), k a 0-based index
Substring(s, k) == SubSeq(s, k + 1, Len(s))

\* String.prototype.split('\n'): always at least one line
RECURSIVE Split(_)
Split(s) ==
  IF \A i \in 1..Len(s) : s[i] # NL THEN <<s>>
  ELSE LET i == CHOOSE j \in 1..Len(s) :
                  /\ s[j] = NL
                  /\ \A k \in 1..(j - 1) : s[k] # NL
       IN  <<SubSeq(s, 1, i - 1)>> \o Split(SubSeq(s, i + 1, Len(s)))

\* Array.prototype.join('\n')
RECURSIVE Join(_)
Join(lines) ==
  IF Len(lines) = 0 THEN <<>>
  ELSE IF Len(lines) = 1 THEN lines[1]
  ELSE lines[1] \o <<NL>> \o Join(Tail(lines))

\* Array.prototype.slice(k), k a 0-based index
Slice(lines, k) == SubSeq(lines, k + 1, Len(lines))

\* the loop of lines 184-190: 0-based index of the first differing line
\* among the common lines, -1 when there is none
FirstDifferentLine(beforeLines, afterLines) ==
  LET common == IF Len(beforeLines) < Len(afterLines)
                THEN Len(beforeLines) ELSE Len(afterLines)
      diff == {i \in 1..common : beforeLines[i] # afterLines[i]}
  IN  IF diff = {} THEN -1
      ELSE (CHOOSE i \in diff : \A j \in diff : i <= j) - 1

\* a fallback that slices the lines of the old snapshot
LineDiffOfBefore(beforeBuffer, afterBuffer) ==
  LET beforeLines == Split(beforeBuffer)
      afterLines == Split(afterBuffer)
      firstDifferentLine == FirstDifferentLine(beforeLines, afterLines)
  IN  IF firstDifferentLine = -1 THEN <<>>
      ELSE Join(Slice(beforeLines, firstDifferentLine))

\* lines 179-218: the line-based fallback
LineDiff(beforeBuffer, afterBuffer) ==
  LET beforeLines == Split(beforeBuffer)
      afterLines == Split(afterBuffer)
      firstDifferentLine == FirstDifferentLine(beforeLines, afterLines)
      lastMatchingLine ==
        IF firstDifferentLine > 0 THEN firstDifferentLine - 1 ELSE -1
  IN  IF firstDifferentLine = -1
      THEN IF Len(afterLines) > Len(beforeLines)
           THEN Join(Slice(afterLines, Len(beforeLines)))
           ELSE <<>>
      ELSE LET beforeLine == beforeLines[firstDifferentLine + 1]
               afterLine == afterLines[firstDifferentLine + 1]
               appendedContent == Substring(afterLine, Len(beforeLine))
               remainingLines == Slice(afterLines, firstDifferentLine + 1)
           IN  IF /\ lastMatchingLine >= 0
                  /\ firstDifferentLine < Len(beforeLines)
                  /\ StartsWith(afterLine, beforeLine)
                  /\ (appendedContent # <<>> \/ Len(remainingLines) > 0)
               THEN appendedContent \o
                    (IF Len(remainingLines) > 0
                     THEN <<NL>> \o Join(remainingLines) ELSE <<>>)
               ELSE Join(Slice(afterLines, firstDifferentLine))

\* line 170
ShrunkNever(beforeBuffer, afterBuffer) == FALSE
Shrunk(beforeBuffer, afterBuffer) == Len(afterBuffer) < Len(beforeBuffer)

\* line 175
AppendedNever(beforeBuffer, afterBuffer) == FALSE
Appended(beforeBuffer, afterBuffer) == StartsWith(afterBuffer, beforeBuffer)

\* extractNewOutput, lines 158-219
ExtractNewOutput(beforeBuffer, afterBuffer) ==
  IF beforeBuffer = <<>> THEN afterBuffer
  ELSE IF beforeBuffer = afterBuffer THEN <<>>
  ELSE IF Shrunk(beforeBuffer, afterBuffer) THEN <<>>
  ELSE IF Appended(beforeBuffer, afterBuffer)
       THEN Substring(afterBuffer, Len(beforeBuffer))
  ELSE LineDiff(beforeBuffer, afterBuffer)

\* ------------------------------------------------------------- the state
VARIABLES
  buffer,             \* the terminal's buffer (TtyOutputReader's source)
  lastRead,           \* bufferState.lastRead
  lastReadTimestamp,  \* bufferState.lastReadTimestamp
  unreadOutput,       \* bufferState.unreadOutput
  pendingCommand,     \* this.pendingCommand, NULL when null
  clock,              \* the latest value Date.now() has returned
  inflight,           \* fire-and-forget submissions not yet settled
  call,               \* per caller: the method being run and its locals
  returned,           \* history: what the step just taken handed back
  lastDone,           \* history: the call that returned last
  delivered,          \* history: the deltas handed to the caller, joined
  quiet,              \* history: buffer untouched since readNewOutput's snapshot
  peeked,             \* history: the last peek, while nothing consumed output
  dispatched          \* history: an async command was handed to the executor
                      \* and no completed read or executeCommand ran since

vars == <<buffer, lastRead, lastReadTimestamp, unreadOutput, pendingCommand,
          clock, inflight, call, returned, lastDone, delivered, quiet, peeked,
          dispatched>>

session == <<lastRead, lastReadTimestamp, unreadOutput, pendingCommand>>

\* BufferState as executeCommand found it when it was entered
NoEntry == <<<<>>, 0, FALSE>>

\* wasUnread: unreadOutput when the method was entered
\* entry: BufferState when executeCommand was entered
\* letter, controlCode: the locals of SendControlCharacter.send
\* overlap: of a readNewOutput inside isCommandComplete: 1 once another
\*          caller has entered executeCommandAsync, 2 once that call returned
\* quietRepeat: readNewOutput's snapshot saw the buffer the previous
\*              readNewOutput left, nothing having happened in between
IdleCall == [op |-> "none", pc |-> "idle", command |-> "none",
             force |-> FALSE, beforeBuffer |-> <<>>, newOutput |-> <<>>,
             buffer1 |-> <<>>, nsub |-> 0, nsnap |-> 0,
             wasUnread |-> FALSE, quietRepeat |-> FALSE, entry |-> NoEntry,
             letter |-> <<>>, controlCode |-> 0, overlap |-> 0]

\* lastDone names executeCommand and executeCommandAsync when they returned
\* normally; any other return is "other"
LastDoneOf(op, kind) ==
  IF kind = "ok" /\ op \in {"executeCommand", "executeCommandAsync"}
  THEN op ELSE "other"

NoPeek == [valid |-> FALSE, delta |-> <<>>, appendOnly |-> FALSE]

\* the failures of the terminal driver, passed on as they are
IOErrors == {"SnapshotError", "SubmissionError"}

\* kind: "ok", "null" (peek's null), "UnreadOutputError", an I/O error,
\* "InvalidSignalError" or "SendError" (send), "ignored" (a swallowed
\* rejection);
\* entry: BufferState when an executeCommand that failed on I/O was entered;
\* cursor: the lastRead an unread-output error was computed against;
\* pendingBefore: pendingCommand before a readNewOutput that saw no completion;
\* after: the call that had returned before; prevPeek: the peek before
NoReturn == [op |-> "none", kind |-> "none", output |-> <<>>,
             fullBuffer |-> <<>>, flag |-> FALSE, force |-> FALSE,
             nsub |-> 0, nsnap |-> 0, wasUnread |-> FALSE,
             quietRepeat |-> FALSE, beforeBuffer |-> <<>>, cursor |-> <<>>,
             pendingBefore |-> NULL, after |-> "none", prevPeek |-> NoPeek,
             entry |-> NoEntry, letter |-> <<>>, controlCode |-> 0,
             overlap |-> 0]

\* a method is entered with fresh locals
NewCall(op, pc) ==
  [IdleCall EXCEPT !.op = op, !.pc = pc, !.wasUnread = unreadOutput,
                   !.entry = IF op = "executeCommand"
                             THEN <<lastRead, lastReadTimestamp, unreadOutput>>
                             ELSE NoEntry]

\* what a method hands back when it returns or throws
Return(c, kind, output, fullBuffer, flag) ==
  [op |-> c.op, kind |-> kind, output |-> output, fullBuffer |-> fullBuffer,
   flag |-> flag, force |-> c.force, nsub |-> c.nsub, nsnap |-> c.nsnap,
   wasUnread |-> c.wasUnread, quietRepeat |-> c.quietRepeat,
   beforeBuffer |-> c.beforeBuffer,
   cursor |-> IF kind = "UnreadOutputError" THEN lastRead ELSE <<>>,
   pendingBefore |-> IF c.op = "readNewOutput" /\ ~flag
                     THEN pendingCommand ELSE NULL,
   after |-> lastDone,
   prevPeek |-> IF c.op = "peekUnreadOutput" THEN peeked ELSE NoPeek,
   entry |-> IF kind \in IOErrors THEN c.entry ELSE NoEntry,
   letter |-> c.letter, controlCode |-> c.controlCode,
   overlap |-> c.overlap]

CanStart(s) == call[s].pc = "idle"

\* delivered stops being recorded once the terminal has cleared its buffer
Void == <<"#">>
Deliver(d) == IF delivered = Void THEN Void ELSE delivered \o d

\* Date.now(): never before a value it returned earlier
Now == {t \in Instants : t >= clock}

Init ==
  /\ buffer = <<>>
  /\ lastRead = <<>>
  /\ lastReadTimestamp = 0
  /\ unreadOutput = FALSE
  /\ pendingCommand = NULL
  /\ clock = 1
  /\ inflight = 0
  /\ call = [s \in Slots |-> IdleCall]
  /\ returned = NoReturn
  /\ lastDone = "none"
  /\ delivered = <<>>
  /\ quiet = FALSE
  /\ peeked = NoPeek
  /\ dispatched = FALSE

\* ------------------------------------------------------------ the terminal
TerminalAppend(c) ==
  /\ Len(buffer) < MaxBuf
  /\ buffer' = Append(buffer, c)
  /\ quiet' = FALSE
  /\ returned' = NoReturn
  /\ UNCHANGED dispatched
  /\ UNCHANGED <<session, clock, inflight, call, lastDone, delivered, peeked>>

TerminalClear ==
  /\ buffer # <<>>
  /\ buffer' = <<>>
  /\ quiet' = FALSE
  /\ delivered' = Void
  /\ peeked' = IF peeked.valid THEN [peeked EXCEPT !.appendOnly = FALSE]
               ELSE peeked
  /\ returned' = NoReturn
  /\ UNCHANGED dispatched
  /\ UNCHANGED <<session, clock, inflight, call, lastDone>>

\* a fire-and-forget submission resolves or rejects; both are ignored
AsyncSettle ==
  /\ inflight > 0
  /\ inflight' = inflight - 1
  /\ returned' = NoReturn
  /\ UNCHANGED dispatched
  /\ UNCHANGED <<buffer, session, clock, call, lastDone, delivered, quiet,
                 peeked>>

\* ------------------------------------------------------- executeCommand
\* line 47
GuardTakenNever(unread, force) == FALSE
GuardTaken(unread, force) == unread /\ ~force

\* line 69
ExecLastReadBefore(beforeBuffer, afterBuffer) == beforeBuffer
ExecLastRead(beforeBuffer, afterBuffer) == afterBuffer

\* line 71
ExecUnreadKept(unread) == unread
ExecUnread(unread) == FALSE

ExecuteCommandCall(s, cmd, force) ==
  /\ CanStart(s)
  /\ call' = [call EXCEPT ![s] =
       [NewCall("executeCommand",
                IF GuardTaken(unreadOutput, force)
                THEN "ec_guard" ELSE "ec_before")
          EXCEPT !.command = cmd, !.force = force]]
  /\ peeked' = NoPeek
  /\ quiet' = FALSE
  /\ returned' = NoReturn
  /\ UNCHANGED dispatched
  /\ UNCHANGED <<buffer, session, clock, inflight, lastDone, delivered>>

\* lines 48-56: the unread-output guard
ExecGuard(s) ==
  /\ call[s].pc = "ec_guard"
  /\ \E t \in Now :
       LET currentBuffer == buffer
           unread == ExtractNewOutput(lastRead, currentBuffer)
           c == [call[s] EXCEPT !.nsnap = @ + 1]
       IN  /\ lastRead' = currentBuffer
           /\ lastReadTimestamp' = t
           /\ clock' = t
           /\ unreadOutput' = FALSE
           /\ returned' = Return(c, "UnreadOutputError", unread, <<>>, FALSE)
           /\ delivered' = Deliver(unread)
  /\ call' = [call EXCEPT ![s] = IdleCall]
  /\ lastDone' = LastDoneOf("executeCommand", "UnreadOutputError")
  /\ dispatched' = FALSE
  /\ UNCHANGED <<buffer, pendingCommand, inflight, quiet, peeked>>

\* lines 60-63: snapshot, then hand the command to the executor
ExecBefore(s) ==
  /\ call[s].pc = "ec_before"
  /\ call' = [call EXCEPT ![s] =
       [@ EXCEPT !.pc = "ec_exec", !.beforeBuffer = buffer,
                 !.nsnap = @ + 1, !.nsub = @ + 1]]
  /\ returned' = NoReturn
  /\ UNCHANGED dispatched
  /\ UNCHANGED <<buffer, session, clock, inflight, lastDone, delivered,
                 quiet, peeked>>

\* CommandExecutor.executeCommand resolves with the buffer it then sees
ExecutorResult(terminal) == terminal

\* lines 63-77: the executor resolved
ExecComplete(s) ==
  /\ call[s].pc = "ec_exec"
  /\ \E t \in Now :
       LET afterBuffer == ExecutorResult(buffer)
           output == ExtractNewOutput(call[s].beforeBuffer, afterBuffer)
       IN  /\ lastRead' = ExecLastRead(call[s].beforeBuffer, afterBuffer)
           /\ lastReadTimestamp' = t
           /\ clock' = t
           /\ unreadOutput' = ExecUnread(unreadOutput)
           /\ returned' = Return(call[s], "ok", output, afterBuffer, FALSE)
           /\ delivered' = Deliver(output)
  /\ call' = [call EXCEPT ![s] = IdleCall]
  /\ lastDone' = LastDoneOf("executeCommand", "ok")
  /\ dispatched' = FALSE
  /\ UNCHANGED <<buffer, pendingCommand, inflight, quiet, peeked>>

\* -------------------------------------------------- executeCommandAsync
\* a call is suspended inside isCommandComplete
InDetector(c) == c.pc \in {"ic_snap1", "ic_snap2"}

\* another caller enters executeCommandAsync
OverlapEntered(c) ==
  IF InDetector(c) /\ c.overlap = 0 THEN [c EXCEPT !.overlap = 1] ELSE c

\* another caller's executeCommandAsync returns
OverlapReturned(c) ==
  IF InDetector(c) /\ c.overlap = 1 THEN [c EXCEPT !.overlap = 2] ELSE c

\* line 86, up to the first await
ExecuteCommandAsyncCall(s, cmd) ==
  /\ CanStart(s)
  /\ inflight + Cardinality({r \in Slots : call[r].pc = "async_before"})
       < MaxInFlight
  /\ unreadOutput' = TRUE
  /\ call' = [r \in Slots |->
       IF r = s
       THEN [NewCall("executeCommandAsync", "async_before")
               EXCEPT !.command = cmd]
       ELSE OverlapEntered(call[r])]
  /\ peeked' = NoPeek
  /\ quiet' = FALSE
  /\ returned' = NoReturn
  /\ UNCHANGED dispatched
  /\ UNCHANGED <<buffer, lastRead, lastReadTimestamp, pendingCommand, clock,
                 inflight, lastDone, delivered>>

\* lines 89-99
AsyncBefore(s) ==
  /\ call[s].pc = "async_before"
  /\ \E t \in Now :
       /\ pendingCommand' = [command |-> call[s].command, timestamp |-> t,
                             beforeBuffer |-> buffer]
       /\ clock' = t
  /\ inflight' = inflight + 1
  /\ returned' = Return([call[s] EXCEPT !.nsnap = @ + 1, !.nsub = @ + 1],
                        "ok", <<>>, <<>>, FALSE)
  /\ call' = [r \in Slots |->
       IF r = s THEN IdleCall ELSE OverlapReturned(call[r])]
  /\ lastDone' = LastDoneOf("executeCommandAsync", "ok")
  /\ dispatched' = TRUE
  /\ UNCHANGED <<buffer, lastRead, lastReadTimestamp, unreadOutput,
                 delivered, quiet, peeked>>

\* --------------------------------------------------------- readNewOutput
ReadNewOutputCall(s) ==
  /\ CanStart(s)
  /\ call' = [call EXCEPT ![s] = NewCall("readNewOutput", "read_snap")]
  /\ peeked' = NoPeek
  /\ returned' = NoReturn
  /\ UNCHANGED dispatched
  /\ UNCHANGED <<buffer, session, clock, inflight, lastDone, delivered,
                 quiet>>

\* line 114
ReadLastReadKept(last, currentBuffer) == last
ReadLastRead(last, currentBuffer) == currentBuffer

\* lines 110-115
ReadSnap(s) ==
  /\ call[s].pc = "read_snap"
  /\ \E t \in Now :
       LET currentBuffer == buffer
       IN  /\ call' = [call EXCEPT ![s] =
                [@ EXCEPT !.pc = "ic_snap1", !.nsnap = @ + 1,
                          !.newOutput =
                             ExtractNewOutput(lastRead, currentBuffer),
                          !.quietRepeat = quiet]]
           /\ lastRead' = ReadLastRead(lastRead, currentBuffer)
           /\ lastReadTimestamp' = t
           /\ clock' = t
  /\ quiet' = TRUE
  /\ returned' = NoReturn
  /\ UNCHANGED dispatched
  /\ UNCHANGED <<buffer, unreadOutput, pendingCommand, inflight, lastDone,
                 delivered, peeked>>

\* isCommandComplete, lines 226-228: first delay, first sample
IsCompleteSnap1(s) ==
  /\ call[s].pc = "ic_snap1"
  /\ call' = [call EXCEPT ![s] =
       [@ EXCEPT !.pc = "ic_snap2", !.buffer1 = buffer, !.nsnap = @ + 1]]
  /\ returned' = NoReturn
  /\ UNCHANGED dispatched
  /\ UNCHANGED <<buffer, session, clock, inflight, lastDone, delivered,
                 quiet, peeked>>

\* isCommandComplete, line 233
IsCommandCompleteAlways(buffer1, buffer2) == TRUE
IsCommandComplete(buffer1, buffer2) == buffer1 = buffer2

\* lines 120-121
ReadUnreadCleared(isComplete, unread) == FALSE
ReadUnread(isComplete, unread) == IF isComplete THEN FALSE ELSE unread

\* a detector that never sees the buffer settle
IsCompleteSnap2Unsettled(s) ==
  /\ call[s].pc = "ic_snap2"
  /\ LET isComplete == FALSE
         c == [call[s] EXCEPT !.nsnap = @ + 1]
     IN  /\ unreadOutput' = ReadUnread(isComplete, unreadOutput)
         /\ pendingCommand' = IF isComplete THEN NULL ELSE pendingCommand
         /\ dispatched' = IF isComplete THEN FALSE ELSE dispatched
         /\ returned' = Return(c, "ok", call[s].newOutput, <<>>, isComplete)
         /\ delivered' = Deliver(call[s].newOutput)
  /\ call' = [call EXCEPT ![s] = IdleCall]
  /\ lastDone' = LastDoneOf("readNewOutput", "ok")
  /\ UNCHANGED <<buffer, lastRead, lastReadTimestamp, clock, inflight,
                 quiet, peeked>>

\* lines 229-233 and 118-128: second delay, second sample, verdict, return
IsCompleteSnap2(s) ==
  /\ call[s].pc = "ic_snap2"
  /\ LET buffer2 == buffer
         isComplete == IsCommandComplete(call[s].buffer1, buffer2)
         c == [call[s] EXCEPT !.nsnap = @ + 1]
     IN  /\ unreadOutput' = ReadUnread(isComplete, unreadOutput)
         /\ pendingCommand' = IF isComplete THEN NULL ELSE pendingCommand
         /\ dispatched' = IF isComplete THEN FALSE ELSE dispatched
         /\ returned' = Return(c, "ok", call[s].newOutput, <<>>, isComplete)
         /\ delivered' = Deliver(call[s].newOutput)
  /\ call' = [call EXCEPT ![s] = IdleCall]
  /\ lastDone' = LastDoneOf("readNewOutput", "ok")
  /\ UNCHANGED <<buffer, lastRead, lastReadTimestamp, clock, inflight,
                 quiet, peeked>>

\* ------------------------------------------------------- hasUnreadOutput
\* line 140
HasUnreadLonger(currentBuffer, last) == Len(currentBuffer) > Len(last)
HasUnread(currentBuffer, last) == currentBuffer # last

\* lines 135-137
HasUnreadOutputCall(s) ==
  /\ CanStart(s)
  /\ IF ~unreadOutput
     THEN /\ returned' = Return(NewCall("hasUnreadOutput", "idle"),
                                "ok", <<>>, <<>>, FALSE)
          /\ lastDone' = LastDoneOf("hasUnreadOutput", "ok")
          /\ UNCHANGED call
     ELSE /\ call' = [call EXCEPT ![s] =
               NewCall("hasUnreadOutput", "has_snap")]
          /\ returned' = NoReturn
          /\ UNCHANGED lastDone
  /\ quiet' = FALSE
  /\ UNCHANGED dispatched
  /\ UNCHANGED <<buffer, session, clock, inflight, delivered, peeked>>

\* lines 139-140
HasSnap(s) ==
  /\ call[s].pc = "has_snap"
  /\ LET currentBuffer == buffer
     IN  returned' = Return([call[s] EXCEPT !.nsnap = @ + 1], "ok", <<>>,
                            <<>>, HasUnread(currentBuffer, lastRead))
  /\ call' = [call EXCEPT ![s] = IdleCall]
  /\ lastDone' = LastDoneOf("hasUnreadOutput", "ok")
  /\ UNCHANGED dispatched
  /\ UNCHANGED <<buffer, session, clock, inflight, delivered, quiet, peeked>>

\* ------------------------------------------------------ peekUnreadOutput
\* lines 147-149; null is the result kind "null"
PeekUnreadOutputCall(s) ==
  /\ CanStart(s)
  /\ IF ~unreadOutput
     THEN /\ returned' = Return(NewCall("peekUnreadOutput", "idle"),
                                "null", <<>>, <<>>, FALSE)
          /\ lastDone' = LastDoneOf("peekUnreadOutput", "null")
          /\ UNCHANGED call
     ELSE /\ call' = [call EXCEPT ![s] =
               NewCall("peekUnreadOutput", "peek_snap")]
          /\ returned' = NoReturn
          /\ UNCHANGED lastDone
  /\ quiet' = FALSE
  /\ UNCHANGED dispatched
  /\ UNCHANGED <<buffer, session, clock, inflight, delivered, peeked>>

\* a peek that moves the read cursor
PeekSnapConsuming(s) ==
  /\ call[s].pc = "peek_snap"
  /\ LET currentBuffer == buffer
         delta == ExtractNewOutput(lastRead, currentBuffer)
     IN  /\ returned' = Return([call[s] EXCEPT !.nsnap = @ + 1], "ok", delta,
                               <<>>, FALSE)
         /\ peeked' = [valid |-> TRUE, delta |-> delta, appendOnly |-> TRUE]
         /\ lastRead' = currentBuffer
  /\ call' = [call EXCEPT ![s] = IdleCall]
  /\ lastDone' = LastDoneOf("peekUnreadOutput", "ok")
  /\ UNCHANGED dispatched
  /\ UNCHANGED <<buffer, lastReadTimestamp, unreadOutput, pendingCommand,
                 clock, inflight, delivered, quiet>>

\* lines 151-152
PeekSnap(s) ==
  /\ call[s].pc = "peek_snap"
  /\ LET currentBuffer == buffer
         delta == ExtractNewOutput(lastRead, currentBuffer)
     IN  /\ returned' = Return([call[s] EXCEPT !.nsnap = @ + 1], "ok", delta,
                               <<>>, FALSE)
         /\ peeked' = [valid |-> TRUE, delta |-> delta, appendOnly |-> TRUE]
  /\ call' = [call EXCEPT ![s] = IdleCall]
  /\ lastDone' = LastDoneOf("peekUnreadOutput", "ok")
  /\ UNCHANGED dispatched
  /\ UNCHANGED <<buffer, session, clock, inflight, delivered, quiet>>

\* ------------------------------------------- SendControlCharacter.send
Upper == <<"A", "B", "C", "D", "E", "F", "G", "H", "I", "J", "K", "L", "M",
           "N", "O", "P", "Q", "R", "S", "T", "U", "V", "W", "X", "Y", "Z">>
Lower == <<"a", "b", "c", "d", "e", "f", "g", "h", "i", "j", "k", "l", "m",
           "n", "o", "p", "q", "r", "s", "t", "u", "v", "w", "x", "y", "z">>

IndexIn(seq, c) == CHOOSE i \in 1..Len(seq) : seq[i] = c
IsIn(seq, c) == \E i \in 1..Len(seq) : seq[i] = c

\* characters outside ASCII are written by their code point:
\* U+0131 dotless i, U+017F long s, U+00DF sharp s
\* String.prototype.toUpperCase on one character (Unicode case mapping)
ToUpperCaseChar(c) ==
  IF IsIn(Lower, c) THEN <<Upper[IndexIn(Lower, c)]>>
  ELSE IF c = "U+0131" THEN <<"I">>
  ELSE IF c = "U+017F" THEN <<"S">>
  ELSE IF c = "U+00DF" THEN <<"S", "S">>
  ELSE <<c>>

\* String.prototype.toUpperCase
RECURSIVE ToUpperCase(_)
ToUpperCase(str) ==
  IF str = <<>> THEN <<>>
  ELSE ToUpperCaseChar(Head(str)) \o ToUpperCase(Tail(str))

\* /^[A-Z]$/.test: one character, an ASCII capital
MatchesLetter(str) == Len(str) = 1 /\ IsIn(Upper, str[1])

\* charCodeAt(0) of an ASCII capital
CharCodeAt0(str) == 64 + IndexIn(Upper, str[1])

ESC == <<"E", "S", "C">>
ESCAPE == <<"E", "S", "C", "A", "P", "E">>

\* lines 407-425: the control code, 0 when the letter is refused
ControlCode(letter) ==
  LET upper == ToUpperCase(letter)
  IN  IF upper = <<"]">> THEN 29
      ELSE IF upper = ESCAPE \/ upper = ESC THEN 27
      ELSE IF ~MatchesLetter(upper) THEN 0
      ELSE CharCodeAt0(upper) - 64

\* the arguments send is tried with
SendInputs ==
  {<<Upper[i]>> : i \in 1..26} \cup {<<Lower[i]>> : i \in 1..26} \cup
  {<<"]">>, <<"[">>, <<"1">>, <<"@">>, <<>>, <<"A", "B">>, <<"A", NL>>,
   <<"^", "C">>, ESC, ESCAPE, <<"e", "s", "c">>, <<"E", "s", "c">>,
   <<"e", "s", "c", "a", "p", "e">>, <<"E", "S", "C", "A", "P">>,
   <<"U+0131">>, <<"U+017F">>, <<"U+00DF">>, <<"e", "U+017F", "c">>}

\* lines 406-425: up to the validation
SendCall(s, letter) ==
  /\ CanStart(s)
  /\ LET c == [NewCall("send", "send_exec")
                EXCEPT !.letter = letter, !.controlCode = ControlCode(letter)]
     IN  IF c.controlCode = 0
         THEN /\ returned' = Return(c, "InvalidSignalError", <<>>, <<>>, FALSE)
              /\ lastDone' = LastDoneOf("send", "InvalidSignalError")
              /\ UNCHANGED call
         ELSE /\ call' = [call EXCEPT ![s] = c]
              /\ returned' = NoReturn
              /\ UNCHANGED lastDone
  /\ UNCHANGED dispatched
  /\ UNCHANGED <<buffer, session, clock, inflight, delivered, quiet, peeked>>

\* lines 437-439: osascript wrote the character to the terminal
SendExec(s) ==
  /\ call[s].pc = "send_exec"
  /\ returned' = Return([call[s] EXCEPT !.nsub = @ + 1], "ok", <<>>, <<>>,
                        FALSE)
  /\ lastDone' = LastDoneOf("send", "ok")
  /\ call' = [call EXCEPT ![s] = IdleCall]
  /\ UNCHANGED dispatched
  /\ UNCHANGED <<buffer, session, clock, inflight, delivered, quiet, peeked>>

\* lines 440-442: osascript failed, the error is wrapped and thrown
SendExecFail(s) ==
  /\ call[s].pc = "send_exec"
  /\ returned' = Return([call[s] EXCEPT !.nsub = @ + 1], "SendError", <<>>,
                        <<>>, FALSE)
  /\ lastDone' = LastDoneOf("send", "SendError")
  /\ call' = [call EXCEPT ![s] = IdleCall]
  /\ UNCHANGED dispatched
  /\ UNCHANGED <<buffer, session, clock, inflight, delivered, quiet, peeked>>

\* ------------------------------------------------ failures of the driver
\* the positions at which a method awaits TtyOutputReader.retrieveBuffer()
SnapshotAwaits ==
  {"ec_guard", "ec_before", "async_before", "read_snap", "ic_snap1",
   "ic_snap2", "has_snap", "peek_snap"}

\* retrieveBuffer() rejects: no method catches, so the method throws what it
\* was given and nothing after the await runs
SnapshotFail(s) ==
  /\ call[s].pc \in SnapshotAwaits
  /\ returned' = Return(call[s], "SnapshotError", <<>>, <<>>, FALSE)
  /\ lastDone' = LastDoneOf(call[s].op, "SnapshotError")
  /\ call' = [call EXCEPT ![s] = IdleCall]
  /\ UNCHANGED dispatched
  /\ UNCHANGED <<buffer, session, clock, inflight, delivered, quiet, peeked>>

\* a failed submission that is taken for a result
ExecSubmitFailMasked(s) ==
  /\ call[s].pc = "ec_exec"
  /\ returned' = Return(call[s], "SubmissionError", <<>>, <<>>, FALSE)
  /\ lastDone' = LastDoneOf("executeCommand", "SubmissionError")
  /\ call' = [call EXCEPT ![s] = IdleCall]
  /\ lastRead' = buffer
  /\ unreadOutput' = FALSE
  /\ UNCHANGED dispatched
  /\ UNCHANGED <<buffer, lastReadTimestamp, pendingCommand, clock, inflight,
                 delivered, quiet, peeked>>

\* line 63: the executor rejects; executeCommand throws what it was given
ExecSubmitFail(s) ==
  /\ call[s].pc = "ec_exec"
  /\ returned' = Return(call[s], "SubmissionError", <<>>, <<>>, FALSE)
  /\ lastDone' = LastDoneOf("executeCommand", "SubmissionError")
  /\ call' = [call EXCEPT ![s] = IdleCall]
  /\ UNCHANGED dispatched
  /\ UNCHANGED <<buffer, session, clock, inflight, delivered, quiet, peeked>>

\* a rejection that reaches the caller of executeCommandAsync
AsyncRejectThrown ==
  /\ inflight > 0
  /\ inflight' = inflight - 1
  /\ returned' = [NoReturn EXCEPT !.op = "executeCommandAsync",
                                  !.kind = "SubmissionError", !.nsub = 1]
  /\ UNCHANGED dispatched
  /\ UNCHANGED <<buffer, session, clock, call, lastDone, delivered, quiet,
                 peeked>>

\* lines 97-99: the fire-and-forget submission rejects, the handler passed
\* to catch() ignores it
AsyncReject ==
  /\ inflight > 0
  /\ inflight' = inflight - 1
  /\ returned' = [NoReturn EXCEPT !.op = "catch", !.kind = "ignored"]
  /\ UNCHANGED dispatched
  /\ UNCHANGED <<buffer, session, clock, call, lastDone, delivered, quiet,
                 peeked>>

\* ---------------------------------------------------------- specifications
SessionStep(s) ==
  \/ \E cmd \in Commands, force \in BOOLEAN : ExecuteCommandCall(s, cmd, force)
  \/ ExecGuard(s)
  \/ ExecBefore(s)
  \/ ExecComplete(s)
  \/ \E cmd \in Commands : ExecuteCommandAsyncCall(s, cmd)
  \/ AsyncBefore(s)
  \/ ReadNewOutputCall(s)
  \/ ReadSnap(s)
  \/ IsCompleteSnap1(s)
  \/ IsCompleteSnap2(s)
  \/ HasUnreadOutputCall(s)
  \/ HasSnap(s)
  \/ PeekUnreadOutputCall(s)
  \/ PeekSnap(s)

\* one caller, a terminal that only appends
NextAppend ==
  \/ \E c \in Chars : TerminalAppend(c)
  \/ AsyncSettle
  \/ SessionStep(1)

SpecAppend == Init /\ [][NextAppend]_vars

\* one caller, a terminal that appends and clears
Next ==
  \/ \E c \in Chars : TerminalAppend(c)
  \/ TerminalClear
  \/ AsyncSettle
  \/ SessionStep(1)

Spec == Init /\ [][Next]_vars

\* one caller, a terminal that only appends, a driver that can fail
NextIO ==
  \/ \E c \in Chars : TerminalAppend(c)
  \/ AsyncSettle
  \/ AsyncReject
  \/ SessionStep(1)
  \/ SnapshotFail(1)
  \/ ExecSubmitFail(1)

SpecIO == Init /\ [][NextIO]_vars

\* the diff engine on every pair of texts: a session that is awaiting a read
\* (an async command was dispatched, reads that saw no completion moved
\* lastRead, the terminal went on appending and clearing) is peeked
InitDiff ==
  /\ buffer \in DiffTexts
  /\ lastRead \in DiffTexts
  /\ lastReadTimestamp = 1
  /\ unreadOutput = TRUE
  /\ pendingCommand = [command |-> "c1", timestamp |-> 1,
                       beforeBuffer |-> <<>>]
  /\ clock = 1
  /\ inflight = 0
  /\ call = [s \in Slots |-> IdleCall]
  /\ returned = NoReturn
  /\ lastDone = "other"
  /\ delivered = Void
  /\ quiet = FALSE
  /\ peeked = NoPeek
  /\ dispatched = TRUE

NextDiff ==
  \/ PeekUnreadOutputCall(1)
  \/ PeekSnap(1)

SpecDiff == InitDiff /\ [][NextDiff]_vars

\* a caller that starts one command with executeCommandAsync, calls
\* readNewOutput until it is told isComplete, then calls executeCommand
\* without force
PollStep ==
  \/ /\ lastDone = "none"
     /\ \E cmd \in Commands : ExecuteCommandAsyncCall(1, cmd)
  \/ AsyncBefore(1)
  \/ /\ lastDone \in {"executeCommandAsync", "other"}
     /\ unreadOutput
     /\ ReadNewOutputCall(1)
  \/ ReadSnap(1)
  \/ IsCompleteSnap1(1)
  \/ IsCompleteSnap2(1)
  \/ /\ lastDone = "other"
     /\ ~unreadOutput
     /\ \E cmd \in Commands : ExecuteCommandCall(1, cmd, FALSE)
  \/ ExecBefore(1)
  \/ ExecComplete(1)

NextPoll ==
  \/ \E c \in Chars : TerminalAppend(c)
  \/ TerminalClear
  \/ AsyncSettle
  \/ PollStep

\* the snapshot source and the executor keep answering, the caller keeps
\* calling: a step of the caller that can be taken is taken
SpecPoll == Init /\ [][NextPoll]_vars /\ WF_vars(PollStep)

\* two callers whose calls overlap: the request handler starts a call for
\* each request it receives and does not wait for the one before
ConcStep(s) ==
  \/ \E cmd \in Commands : ExecuteCommandAsyncCall(s, cmd)
  \/ AsyncBefore(s)
  \/ ReadNewOutputCall(s)
  \/ ReadSnap(s)
  \/ IsCompleteSnap1(s)
  \/ IsCompleteSnap2(s)

NextConc ==
  \/ \E c \in Chars : TerminalAppend(c)
  \/ AsyncSettle
  \/ \E s \in Slots : ConcStep(s)

SpecConc == Init /\ [][NextConc]_vars

\* the control-signal sender on its own
NextSignal ==
  \/ \E letter \in SendInputs : SendCall(1, letter)
  \/ SendExec(1)
  \/ SendExecFail(1)

SpecSignal == Init /\ [][NextSignal]_vars

TypeOK ==
  /\ buffer \in TextsUpTo(MaxBuf)
  /\ lastRead \in TextsUpTo(MaxBuf)
  /\ lastReadTimestamp \in {0} \cup Instants
  /\ unreadOutput \in BOOLEAN
  /\ clock \in Instants
  /\ inflight \in 0..MaxInFlight

\* ------------------------------------------------------------------ claims
IsPrefix(p, t) == StartsWith(t, p)

\* C1: executeCommand entered while unreadOutput is true, without
\* forceExecute, submits nothing and fails with the unread-output error;
\* the error carries extractNewOutput(lastRead, snapshot), and afterwards
\* lastRead is that snapshot and unreadOutput is false.
C1_GuardRejects ==
  /\ \A s \in Slots :
       (call[s].op = "executeCommand" /\ call[s].wasUnread /\ ~call[s].force)
         => call[s].nsub = 0
  /\ (returned.op = "executeCommand" /\ returned.wasUnread /\ ~returned.force)
       => /\ returned.kind = "UnreadOutputError"
          /\ returned.nsub = 0
          /\ returned.output = ExtractNewOutput(returned.cursor, buffer)
          /\ lastRead = buffer
          /\ ~unreadOutput

C1_Witness ==
  /\ returned.kind = "UnreadOutputError"
  /\ returned.cursor # <<>>
  /\ returned.output # <<>>
  /\ lastRead # returned.cursor

\* C2: with one caller and a terminal that only appends, between calls the
\* deltas handed to the caller (results and unread-output errors of
\* executeCommand, results of readNewOutput), joined, are exactly lastRead.
C2_NoOutputLost ==
  (\A s \in Slots : call[s].pc = "idle") => delivered = lastRead

\* C3: a command is submitted by a method entered while unreadOutput was
\* true only if that method is executeCommand with forceExecute.
C3_GuardOverAllOperations ==
  /\ \A s \in Slots :
       (call[s].nsub > 0 /\ call[s].wasUnread)
         => (call[s].op = "executeCommand" /\ call[s].force)
  /\ (returned.nsub > 0 /\ returned.wasUnread)
       => (returned.op = "executeCommand" /\ returned.force)

\* the example of C4: before "$ ", after "$ echo hi\nhi\n$ "
ScenarioA ==
  ExtractNewOutput(
    <<"$", " ">>,
    <<"$", " ", "e", "c", "h", "o", " ", "h", "i", NL, "h", "i", NL, "$", " ">>)
  = <<"e", "c", "h", "o", " ", "h", "i", NL, "h", "i", NL, "$", " ">>

\* C4: executeCommand entered with unreadOutput false, or with
\* forceExecute, submits exactly one command and returns
\* output = extractNewOutput(beforeBuffer, afterBuffer) and
\* fullBuffer = afterBuffer; afterwards lastRead = afterBuffer and
\* unreadOutput is false.
C4_NormalPath ==
  /\ ScenarioA
  /\ (returned.op = "executeCommand" /\ (~returned.wasUnread \/ returned.force))
       => /\ returned.kind = "ok"
          /\ returned.nsub = 1
          /\ returned.fullBuffer = buffer
          /\ returned.output =
               ExtractNewOutput(returned.beforeBuffer, returned.fullBuffer)
          /\ lastRead = returned.fullBuffer
          /\ ~unreadOutput

C4_Witness ==
  /\ returned.op = "executeCommand"
  /\ returned.kind = "ok"
  /\ returned.force
  /\ returned.wasUnread
  /\ returned.beforeBuffer # <<>>
  /\ returned.output # <<>>
  /\ returned.output # returned.fullBuffer

\* C5: after executeCommand has returned normally, whatever the terminal
\* does, unreadOutput is false, the next hasUnreadOutput returns false and
\* the next peekUnreadOutput returns null.
C5_IdleAfterExecute ==
  /\ (returned.op = "executeCommand" /\ returned.kind = "ok") => ~unreadOutput
  /\ (returned.op = "hasUnreadOutput" /\ returned.after = "executeCommand")
       => (returned.kind = "ok" /\ ~returned.flag)
  /\ (returned.op = "peekUnreadOutput" /\ returned.after = "executeCommand")
       => returned.kind = "null"

C5_Witness ==
  /\ returned.op = "peekUnreadOutput"
  /\ returned.after = "executeCommand"
  /\ returned.kind = "null"
  /\ buffer # lastRead

\* C6: readNewOutput stores the snapshot it took in lastRead, whatever the
\* completion detector says later, and a readNewOutput that follows a
\* readNewOutput with the buffer untouched in between returns an empty delta.
C6_DestructiveRead ==
  /\ quiet => lastRead = buffer
  /\ (returned.op = "readNewOutput" /\ returned.quietRepeat)
       => returned.output = <<>>

C6_Witness ==
  /\ returned.op = "readNewOutput"
  /\ returned.quietRepeat
  /\ returned.output = <<>>
  /\ lastRead # <<>>
  /\ ~returned.flag

\* C7: readNewOutput that reports isComplete = false leaves unreadOutput and
\* pendingCommand as they were; one that reports isComplete = true leaves
\* unreadOutput false and pendingCommand null.
C7_StateOnlyOnCompletion ==
  returned.op = "readNewOutput" =>
    IF returned.flag
    THEN ~unreadOutput /\ pendingCommand = NULL
    ELSE /\ unreadOutput = returned.wasUnread
         /\ pendingCommand = returned.pendingBefore

C7_Witness ==
  /\ returned.op = "readNewOutput"
  /\ ~returned.flag
  /\ unreadOutput
  /\ pendingCommand # NULL

\* C8 as stated: the hasUnreadOutput that follows a returned
\* executeCommandAsync returns true.
C8_HasUnreadAfterAsync ==
  (returned.op = "hasUnreadOutput" /\ returned.after = "executeCommandAsync")
    => returned.flag

\* C8: the hasUnreadOutput that follows a returned executeCommandAsync finds
\* unreadOutput true, takes a snapshot, and returns true exactly when that
\* snapshot differs from lastRead.
C8_HasUnreadAfterAsyncIffChanged ==
  (returned.op = "hasUnreadOutput" /\ returned.after = "executeCommandAsync")
    => /\ unreadOutput
       /\ returned.nsnap = 1
       /\ returned.flag = (buffer # lastRead)

C8_Witness ==
  /\ returned.op = "hasUnreadOutput"
  /\ returned.after = "executeCommandAsync"
  /\ ~returned.flag
  /\ buffer # <<>>

HasOrPeek == {"hasUnreadOutput", "peekUnreadOutput"}

\* C9: no step of hasUnreadOutput or peekUnreadOutput changes lastRead,
\* lastReadTimestamp, unreadOutput or pendingCommand, or submits anything;
\* entered with unreadOutput false they return false / null without a
\* snapshot.
C9_NonDestructive ==
  [][ ( \/ returned'.op \in HasOrPeek
        \/ \E s \in Slots : /\ call'[s].op \in HasOrPeek
                            /\ call[s].pc # call'[s].pc )
      => /\ UNCHANGED <<session, inflight>>
         /\ returned'.nsub = 0
         /\ (returned'.op \in HasOrPeek /\ ~returned'.wasUnread)
              => /\ returned'.nsnap = 0
                 /\ ~returned'.flag
                 /\ returned'.output = <<>>
                 /\ returned'.kind = IF returned'.op = "peekUnreadOutput"
                                     THEN "null" ELSE "ok"
    ]_vars

C9_Witness ==
  /\ returned.op = "peekUnreadOutput"
  /\ returned.kind = "ok"
  /\ returned.output # <<>>
  /\ lastRead # buffer
  /\ lastRead # <<>>
  /\ unreadOutput

\* C10 as stated: of two peeks with nothing but hasUnreadOutput between
\* them, the later delta equals or extends the earlier one, whatever the
\* terminal did.
C10_PeekGrows ==
  (returned.op = "peekUnreadOutput" /\ returned.kind = "ok"
     /\ returned.prevPeek.valid)
    => IsPrefix(returned.prevPeek.delta, returned.output)

\* C10: of two peeks with nothing but hasUnreadOutput between them, the
\* later delta equals or extends the earlier one, provided the terminal only
\* appended to its buffer between the two.
C10_PeekGrowsWhenAppendOnly ==
  (returned.op = "peekUnreadOutput" /\ returned.kind = "ok"
     /\ returned.prevPeek.valid /\ returned.prevPeek.appendOnly)
    => IsPrefix(returned.prevPeek.delta, returned.output)

C10_Witness ==
  /\ returned.op = "peekUnreadOutput"
  /\ returned.prevPeek.valid
  /\ returned.prevPeek.appendOnly
  /\ returned.prevPeek.delta # <<>>
  /\ returned.output # returned.prevPeek.delta
  /\ lastRead # <<>>

\* C11 as stated: hasUnreadOutput and peekUnreadOutput never fail; they
\* complete with a boolean, a delta or null even when the snapshot source
\* returns an error.
C11_HasAndPeekNeverFail ==
  returned.op \in HasOrPeek => returned.kind \in {"ok", "null"}

\* C12: an executeCommandAsync that reached its submission returns normally
\* and without output while the submission is still in flight, leaving
\* unreadOutput true and a PendingCommand recorded; when the submission
\* later rejects, the rejection is ignored: nothing is thrown and the session
\* is left as it was.
C12_BestEffortStart ==
  [][ /\ (returned'.op = "executeCommandAsync" /\ returned'.nsub = 1)
           => /\ returned'.kind = "ok"
              /\ returned'.output = <<>>
              /\ unreadOutput'
              /\ pendingCommand' # NULL
              /\ pendingCommand'.command \in Commands
              /\ inflight' = inflight + 1
      /\ returned'.op = "catch"
           => /\ returned'.kind = "ignored"
              /\ UNCHANGED <<session, call, lastDone, delivered>>
    ]_vars

C12_Witness ==
  /\ returned.op = "catch"
  /\ lastDone = "executeCommandAsync"
  /\ unreadOutput
  /\ pendingCommand # NULL
  /\ inflight = 0

\* C13: an executeCommand that fails on a snapshot or on its submission has
\* made at most one submission, throws the driver's error as it is (the
\* snapshot's when nothing was submitted, the submission's otherwise), and
\* leaves lastRead, lastReadTimestamp and unreadOutput as the call found them;
\* a forced call entered with unreadOutput true leaves it true.
C13_FailingExecuteNotMasked ==
  /\ returned.op = "executeCommand"
       => returned.kind \in {"ok", "UnreadOutputError"} \cup IOErrors
  /\ (returned.op = "executeCommand" /\ returned.kind \in IOErrors)
       => /\ returned.nsub <= 1
          /\ returned.kind = IF returned.nsub = 0
                             THEN "SnapshotError" ELSE "SubmissionError"
          /\ <<lastRead, lastReadTimestamp, unreadOutput>> = returned.entry
          /\ (returned.force /\ returned.wasUnread) => unreadOutput

C13_Witness ==
  /\ returned.op = "executeCommand"
  /\ returned.kind = "SubmissionError"
  /\ returned.force
  /\ returned.wasUnread
  /\ unreadOutput
  /\ lastRead # buffer

PeekReturned == returned.op = "peekUnreadOutput" /\ returned.kind = "ok"

\* C14: extractNewOutput(x, x + y) = y for all texts x and y, newlines
\* included; in particular extractNewOutput("", y) = y and
\* extractNewOutput(x, x) = "".
C14_PureAppend ==
  PeekReturned =>
    LET x == lastRead
        y == SubSeq(buffer, Len(lastRead) + 1, Len(buffer))
    IN  /\ buffer = x \o y => returned.output = y
        /\ x = <<>> => returned.output = buffer
        /\ x = buffer => returned.output = <<>>

C14_Witness ==
  /\ PeekReturned
  /\ \E i \in 1..Len(lastRead) : lastRead[i] = NL
  /\ buffer = lastRead \o returned.output
  /\ Len(returned.output) >= 2
  /\ \E i \in 1..Len(returned.output) : returned.output[i] = NL

\* C15: extractNewOutput(before, after) = "" whenever after is shorter than
\* before, whatever the two texts contain.
C15_ShrinkingBuffer ==
  (PeekReturned /\ Len(buffer) < Len(lastRead)) => returned.output = <<>>

C15_Witness ==
  /\ PeekReturned
  /\ Len(buffer) < Len(lastRead)
  /\ buffer # <<>>
  /\ buffer[1] # lastRead[1]
  /\ returned.output = <<>>

\* what the partial-line extension rule yields at the first differing line
PartialLineDelta(beforeBuffer, afterBuffer) ==
  LET beforeLines == Split(beforeBuffer)
      afterLines == Split(afterBuffer)
      i == FirstDifferentLine(beforeLines, afterLines)
      rest == Slice(afterLines, i + 1)
  IN  Substring(afterLines[i + 1], Len(beforeLines[i + 1])) \o
      (IF Len(rest) > 0 THEN <<NL>> \o Join(rest) ELSE <<>>)

\* the line-based fallback is reached and the first differing line of
\* after starts with that line of before
PartialLineCase(beforeBuffer, afterBuffer) ==
  /\ beforeBuffer # <<>>
  /\ Len(afterBuffer) >= Len(beforeBuffer)
  /\ ~StartsWith(afterBuffer, beforeBuffer)
  /\ LET beforeLines == Split(beforeBuffer)
         afterLines == Split(afterBuffer)
         i == FirstDifferentLine(beforeLines, afterLines)
     IN  /\ i >= 0
         /\ StartsWith(afterLines[i + 1], beforeLines[i + 1])

\* C18 as stated: whenever the line-based fallback is reached and the first
\* differing line of after, at any index including 0, starts with that line
\* of before, the delta is the text appended to the line followed by the
\* later lines of after.
C18_PartialLineExtension ==
  (PeekReturned /\ PartialLineCase(lastRead, buffer))
    => returned.output = PartialLineDelta(lastRead, buffer)

\* the code the claim gives for a letter, 0 for a letter it has rejected:
\* 29 for "]", 27 for ESC / ESCAPE in any case, 1..26 for one letter A-Z or
\* a-z
ClaimedCode(letter) ==
  IF letter = <<"]">> THEN 29
  ELSE IF /\ Len(letter) \in {3, 6}
          /\ \A i \in 1..Len(letter) :
               \/ letter[i] = ESCAPE[i]
               \/ IsIn(Lower, letter[i])
                    /\ Upper[IndexIn(Lower, letter[i])] = ESCAPE[i]
       THEN 27
  ELSE IF Len(letter) = 1 /\ IsIn(Upper, letter[1])
       THEN IndexIn(Upper, letter[1])
  ELSE IF Len(letter) = 1 /\ IsIn(Lower, letter[1])
       THEN IndexIn(Lower, letter[1])
  ELSE 0

\* C16 as stated: send computes 29 for "]", 27 for ESC / ESCAPE in any case
\* and 1..26 for one letter A-Z in either case; every other argument is
\* rejected with the invalid-signal error and nothing is sent.
C16_SendValidates ==
  /\ \A s \in Slots : call[s].op = "send"
       => /\ call[s].controlCode = ClaimedCode(call[s].letter)
          /\ call[s].controlCode # 0
  /\ returned.op = "send"
       => /\ returned.controlCode = ClaimedCode(returned.letter)
          /\ returned.controlCode = 0
               <=> returned.kind = "InvalidSignalError"
          /\ returned.kind = "InvalidSignalError" => returned.nsub = 0

\* C17: isCommandComplete takes two snapshots, one on each side of a delay
\* in which the terminal may write, and answers true exactly when the two
\* are equal; taking them changes no session state, and a readNewOutput told
\* false changes none either.
C17_CompletionDetector ==
  [][ \A s \in Slots :
        /\ (call[s].pc = "ic_snap1" /\ call'[s] # call[s])
             => /\ call'[s].pc = "ic_snap2"
                /\ call'[s].buffer1 = buffer
                /\ call'[s].nsnap = call[s].nsnap + 1
                /\ UNCHANGED session
        /\ (call[s].pc = "ic_snap2" /\ call'[s] # call[s])
             => /\ returned'.op = "readNewOutput"
                /\ returned'.nsnap = call[s].nsnap + 1
                /\ returned'.nsnap = 3
                /\ returned'.flag = (call[s].buffer1 = buffer)
                /\ UNCHANGED <<lastRead, lastReadTimestamp>>
                /\ ~returned'.flag => UNCHANGED session
    ]_vars

C17_Witness ==
  /\ returned.op = "readNewOutput"
  /\ returned.nsnap = 3
  /\ ~returned.flag
  /\ unreadOutput
  /\ lastRead # buffer

\* C19 as stated: when a readNewOutput entered with unreadOutput true returns
\* isComplete = true, lastRead is the stable buffer on which completion was
\* detected.
C19_CompletionMeansDrained ==
  (returned.op = "readNewOutput" /\ returned.wasUnread /\ returned.flag)
    => lastRead = buffer

\* C20 as stated: between calls unreadOutput is true only if an async
\* command has been handed to the executor and neither a readNewOutput that
\* detected completion nor an executeCommand has run since.
C20_UnreadOnlyAfterDispatch ==
  ((\A s \in Slots : call[s].pc = "idle") /\ unreadOutput) => dispatched

\* submissions the terminal has not answered yet: the fire-and-forget ones
\* and those an executeCommand is awaiting
Submissions == inflight + Cardinality({s \in Slots : call[s].pc = "ec_exec"})

\* C21 as stated: with one caller, at most one submission is awaiting the
\* terminal at any time.
C21_OneSubmissionInFlight == Submissions <= 1

\* C22 as stated: between operations, unreadOutput = false implies that
\* pendingCommand is null.
C22_IdleHasNoPending ==
  ((\A s \in Slots : call[s].pc = "idle") /\ ~unreadOutput)
    => pendingCommand = NULL

\* C23: if the terminal buffer eventually stops changing, the caller that
\* polls readNewOutput after executeCommandAsync is eventually told
\* isComplete = true with the session Idle, and the executeCommand without
\* force that follows is submitted and returns normally.
C23_PollingTerminates ==
  (<>[][UNCHANGED buffer]_vars) =>
    /\ (lastDone = "executeCommandAsync")
         ~> (returned.op = "readNewOutput" /\ returned.flag /\ ~unreadOutput)
    /\ (returned.op = "readNewOutput" /\ returned.flag)
         ~> /\ returned.op = "executeCommand"
            /\ returned.kind = "ok"
            /\ ~returned.force
            /\ returned.nsub = 1

C23_Witness ==
  /\ returned.op = "executeCommand"
  /\ returned.kind = "ok"
  /\ ~returned.force
  /\ pendingCommand = NULL
  /\ lastRead # <<>>

\* C24 as stated: when an executeCommandAsync call ran from entry to return
\* while a readNewOutput call was suspended inside the completion detector,
\* then once both have returned unreadOutput is true and the new
\* PendingCommand is recorded.
C24_OverlapKeepsGuard ==
  ( /\ returned.op = "readNewOutput"
    /\ returned.overlap = 2
    /\ \A s \in Slots : call[s].pc = "idle" )
    => (unreadOutput /\ pendingCommand # NULL)

IsSuffix(t, text) ==
  /\ Len(t) <= Len(text)
  /\ SubSeq(text, Len(text) - Len(t) + 1, Len(text)) = t

\* C25: extractNewOutput(before, after) is a suffix of after, for all texts
\* before and after.
C25_DeltaIsSuffix ==
  PeekReturned => IsSuffix(returned.output, buffer)

C25_Witness ==
  /\ PeekReturned
  /\ lastRead # <<>>
  /\ Len(buffer) >= Len(lastRead)
  /\ ~StartsWith(buffer, lastRead)
  /\ FirstDifferentLine(Split(lastRead), Split(buffer)) >= 1
  /\ returned.output # <<>>
  /\ returned.output # buffer
  /\ IsSuffix(returned.output, buffer)

====
